---- MODULE Spec2Model ----
(***************************************************************************)
(* Model of src/resolve.ts: the type-to-schema resolution engine.          *)
(*                                                                         *)
(* Strings that the code inspects character by character (type names, tag  *)
(* texts) are sequences of one-character strings.  Schema fragments are    *)
(* functions from key strings to values, as JavaScript objects are.        *)
(***************************************************************************)
EXTENDS Integers, Sequences, FiniteSets, TLC

VARIABLES
  schemas,    \* spec.components.schemas: normalized name -> schema fragment
  call,       \* the type descriptor of the last top-level resolve call
  result,     \* what that call returned (meaningful when status = "ok")
  status,     \* "init", "ok", or the error the call threw
  rawName,    \* name normalizer: the raw type name
  once,       \* stringifyName(rawName)
  twice,      \* stringifyName(stringifyName(rawName))
  step        \* name normalizer: how many times stringifyName was applied

vars == <<schemas, call, result, status, rawName, once, twice, step>>

----------------------------------------------------------------------------
(* Bounds *)

\* Call-stack capacity of the JavaScript engine, in frames of resolve /
\* resolveProperties.  Exceeding it throws RangeError.
MaxStack == 8

\* Raw names given to the name normalizer are made of at most this many tokens.
MaxTokens == 3

----------------------------------------------------------------------------
(* Characters *)

LowerCase == {"a","b","c","d","e","f","g","h","i","j","k","l","m",
              "n","o","p","q","r","s","t","u","v","w","x","y","z"}
UpperCase == {"A","B","C","D","E","F","G","H","I","J","K","L","M",
              "N","O","P","Q","R","S","T","U","V","W","X","Y","Z"}
Letters == LowerCase \cup UpperCase
Digits == {"0","1","2","3","4","5","6","7","8","9"}
WhiteSpace == {" ", "\t", "\n", "\r"}
LineTerminators == {"\n", "\r"}

RECURSIVE Str(_)
Str(s) == IF s = <<>> THEN "" ELSE Head(s) \o Str(Tail(s))

SetMin(S) == CHOOSE m \in S : \A n \in S : m <= n
SetMax(S) == CHOOSE m \in S : \A n \in S : m >= n

startsWith(s, p) == Len(s) >= Len(p) /\ SubSeq(s, 1, Len(p)) = p

\* String.prototype.substr(start) / substr(0, length) on 0-based offsets
substrFrom(s, start) == SubSeq(s, start + 1, Len(s))
substrTo(s, length) == IF length <= 0 THEN <<>> ELSE SubSeq(s, 1, IF length < Len(s) THEN length ELSE Len(s))

\* s.replace(/[cs]/g, rep)
RECURSIVE replaceChars(_, _, _)
replaceChars(s, cs, rep) ==
  IF s = <<>> THEN <<>>
  ELSE (IF Head(s) \in cs THEN rep ELSE <<Head(s)>>) \o replaceChars(Tail(s), cs, rep)

\* s.replace(/import\(.+\)\./g, ''): leftmost start, greedy '.+' (no line
\* terminator), then the scan resumes after the match
RECURSIVE replaceImports(_)
replaceImports(s) ==
  LET imp == <<"i","m","p","o","r","t","(">>
      ends(i) == {j \in (i + 8)..(Len(s) - 1) :
                    /\ s[j] = ")" /\ s[j + 1] = "."
                    /\ \A k \in (i + 7)..(j - 1) : s[k] \notin LineTerminators}
      starts == {i \in 1..Len(s) : /\ i + 6 <= Len(s)
                                   /\ SubSeq(s, i, i + 6) = imp
                                   /\ ends(i) # {}}
  IN IF starts = {} THEN s
     ELSE LET i == SetMin(starts)
              j == SetMax(ends(i))
          IN SubSeq(s, 1, i - 1) \o replaceImports(SubSeq(s, j + 2, Len(s)))

\* s.replace(/q([^q]*)q/g, '$1') for a quote character q
RECURSIVE replaceQuoted(_, _)
replaceQuoted(s, q) ==
  IF s = <<>> THEN <<>>
  ELSE IF Head(s) = q /\ \E j \in 2..Len(s) : s[j] = q
       THEN LET j == SetMin({k \in 2..Len(s) : s[k] = q})
            IN SubSeq(s, 2, j - 1) \o replaceQuoted(SubSeq(s, j + 1, Len(s)), q)
       ELSE <<Head(s)>> \o replaceQuoted(Tail(s), q)

\* s.replace(/\[\]/g, '-Array')
RECURSIVE replaceArrayMarker(_)
replaceArrayMarker(s) ==
  IF s = <<>> THEN <<>>
  ELSE IF Len(s) >= 2 /\ s[1] = "[" /\ s[2] = "]"
       THEN <<"-","A","r","r","a","y">> \o replaceArrayMarker(SubSeq(s, 3, Len(s)))
       ELSE <<Head(s)>> \o replaceArrayMarker(Tail(s))

\* last index of the run of letters that starts at index i
RECURSIVE letterRunEnd(_, _)
letterRunEnd(s, i) ==
  IF i < Len(s) /\ s[i + 1] \in Letters THEN letterRunEnd(s, i + 1) ELSE i

\* s.replace(/([a-z]+):([a-z]+)/gi, '$1-$2'); i is the scan position and
\* consumed the last index taken by the previous match
RECURSIVE replaceKeyValue(_, _, _)
replaceKeyValue(s, i, consumed) ==
  IF i > Len(s) THEN s
  ELSE IF /\ s[i] = ":" /\ i > 1 /\ i < Len(s)
          /\ s[i - 1] \in Letters /\ i - 1 > consumed
          /\ s[i + 1] \in Letters
       THEN LET e == letterRunEnd(s, i + 1)
            IN replaceKeyValue([s EXCEPT ![i] = "-"], e + 1, e)
       ELSE replaceKeyValue(s, i + 1, consumed)

\* s.replace(/([a-z]+)\[([a-z]+)\]/gi, '$1-at-$2'): the output for s from
\* index i on; a match ends with its ']', so the letter before a later '['
\* is never part of an earlier match
RECURSIVE replaceIndexedAccess(_, _)
replaceIndexedAccess(s, i) ==
  IF i > Len(s) THEN <<>>
  ELSE IF /\ s[i] = "[" /\ i > 1 /\ i < Len(s)
          /\ s[i - 1] \in Letters /\ s[i + 1] \in Letters
          /\ LET e == letterRunEnd(s, i + 1) IN e < Len(s) /\ s[e + 1] = "]"
       THEN LET e == letterRunEnd(s, i + 1)
            IN <<"-","a","t","-">> \o SubSeq(s, i + 1, e) \o replaceIndexedAccess(s, e + 2)
       ELSE <<s[i]>> \o replaceIndexedAccess(s, i + 1)

\* encodeURIComponent on ASCII input: everything but the unreserved
\* characters becomes %XX
UriUnreserved == Letters \cup Digits \cup {"-", "_", ".", "!", "~", "*", "'", "(", ")"}
UriHex ==
  [c \in {" ", "\"", "#", "$", "%", "&", "+", ",", "/", ":", ";", "<", "=", ">",
          "?", "@", "[", "]", "^", "{", "|", "}", "\t", "\n", "\r"} |->
     CASE c = " "  -> <<"2","0">> [] c = "\"" -> <<"2","2">> [] c = "#" -> <<"2","3">>
       [] c = "$"  -> <<"2","4">> [] c = "%"  -> <<"2","5">> [] c = "&" -> <<"2","6">>
       [] c = "+"  -> <<"2","B">> [] c = ","  -> <<"2","C">> [] c = "/" -> <<"2","F">>
       [] c = ":"  -> <<"3","A">> [] c = ";"  -> <<"3","B">> [] c = "<" -> <<"3","C">>
       [] c = "="  -> <<"3","D">> [] c = ">"  -> <<"3","E">> [] c = "?" -> <<"3","F">>
       [] c = "@"  -> <<"4","0">> [] c = "["  -> <<"5","B">>
       [] c = "]"  -> <<"5","D">> [] c = "^"  -> <<"5","E">>
       [] c = "{"  -> <<"7","B">> [] c = "|"  -> <<"7","C">> [] c = "}" -> <<"7","D">>
       [] c = "\t" -> <<"0","9">> [] c = "\n" -> <<"0","A">> [] c = "\r" -> <<"0","D">>]

RECURSIVE encodeURIComponent(_)
encodeURIComponent(s) ==
  IF s = <<>> THEN <<>>
  ELSE (IF Head(s) \in UriUnreserved THEN <<Head(s)>> ELSE <<"%">> \o UriHex[Head(s)])
       \o encodeURIComponent(Tail(s))

\* resolve.ts stringifyName
stringifyName(rawName0) ==
  LET promise == <<"P","r","o","m","i","s","e","<">>
      n0 == IF startsWith(rawName0, promise)
            THEN LET nameWithoutPromise == substrFrom(rawName0, Len(promise))
                 IN substrTo(nameWithoutPromise, Len(nameWithoutPromise) - 1)
            ELSE rawName0
      n1  == replaceImports(n0)
      n2  == replaceChars(n1, {"<", ">"}, <<"_">>)
      n3  == replaceChars(n2, WhiteSpace, <<>>)
      n4  == replaceChars(n3, {","}, <<".">>)
      n5  == replaceQuoted(n4, "'")
      n6  == replaceQuoted(n5, "\"")
      n7  == replaceChars(n6, {"&"}, <<"-","a","n","d","-">>)
      n8  == replaceChars(n7, {"|"}, <<"-","o","r","-">>)
      n9  == replaceArrayMarker(n8)
      n10 == replaceChars(n9, {"{", "}"}, <<"_">>)
      n11 == replaceKeyValue(n10, 1, 0)
      n12 == replaceChars(n11, {";"}, <<"-","-">>)
      n13 == replaceIndexedAccess(n12, 1)
      n14 == replaceChars(n13, {"{", "}", "[", "]", "(", ")"}, <<"_">>)
      n15 == replaceChars(n14, {":"}, <<"-">>)
      n16 == replaceChars(n15, {"?"}, <<".",".">>)
      n17 == replaceChars(n16, {"'", "\""}, <<>>)
  IN encodeURIComponent(n17)

\* resolve.ts buildRef
buildRef(name) == "#/components/schemas/" \o name

----------------------------------------------------------------------------
(* Type descriptors (the ts-morph Type handles the code queries).          *)
(* A descriptor is a record with a kind; TDecl(id) is a handle to a        *)
(* declaration of the program being described, which may be cyclic.        *)

TPrimitive(text) == [kind |-> "primitive", text |-> text]
TLiteral(isNumberLiteral, value) ==
  [kind |-> "literal", isNumberLiteral |-> isNumberLiteral, value |-> value]
TBoolean == [kind |-> "boolean"]
TUnknown == [kind |-> "unknown"]
TArray(element) == [kind |-> "array", element |-> element]
TTuple(elements) == [kind |-> "tuple", elements |-> elements]
TPromise(argument) == [kind |-> "promise", typeArguments |-> <<argument>>]
TNullable(nonNullable, hasNull, hasUndefined) ==
  [kind |-> "nullable", nonNullable |-> nonNullable,
   hasNull |-> hasNull, hasUndefined |-> hasUndefined]
TIntersection(members) == [kind |-> "intersection", members |-> members]
TUnion(members) == [kind |-> "union", isEnum |-> FALSE, members |-> members]
TEnum(symbolName, members) ==
  [kind |-> "union", isEnum |-> TRUE, symbolName |-> symbolName, members |-> members]
TObject(symbolName, declarationKind, aliasName, text, typeArguments, properties, stringIndexType, numberIndexType) ==
  [kind |-> "object", symbolName |-> symbolName,
   declarationKind |-> declarationKind, aliasName |-> aliasName, text |-> text,
   typeArguments |-> typeArguments, properties |-> properties,
   stringIndexType |-> stringIndexType, numberIndexType |-> numberIndexType]
TDecl(id) == [kind |-> "decl", id |-> id]

Tag(name, text) == [name |-> name, text |-> text]
Property(name, type, modifierFlags, getAccessor, setAccessor, jsDocTags) ==
  [name |-> name, type |-> type, modifierFlags |-> modifierFlags,
   getAccessor |-> getAccessor, setAccessor |-> setAccessor, jsDocTags |-> jsDocTags]
Field(name, type) == Property(name, type, {}, FALSE, FALSE, <<>>)

----------------------------------------------------------------------------
(* The program being described: its declarations and the types handed to  *)
(* resolve.  Two files declare an Item; no other name is declared twice.   *)

\* the names the code compares against
Name__type == <<"_","_","t","y","p","e">>
Name__object == <<"_","_","o","b","j","e","c","t">>
NameDate == <<"D","a","t","e">>

TString == TPrimitive(<<"s","t","r","i","n","g">>)
TNumber == TPrimitive(<<"n","u","m","b","e","r">>)
TVoid == TPrimitive(<<"v","o","i","d">>)

NameLeaf == <<"L","e","a","f">>
NameSelf == <<"S","e","l","f">>
NamePing == <<"P","i","n","g">>
NamePong == <<"P","o","n","g">>
NameHolder == <<"H","o","l","d","e","r">>
NameItem == <<"I","t","e","m">>
NameColor == <<"C","o","l","o","r">>
NameLevel == <<"L","e","v","e","l">>
NameBox == <<"B","o","x">>
TextPartialLeaf == <<"P","a","r","t","i","a","l","<","L","e","a","f",">">>

Interface(name, properties) ==
  TObject(name, "InterfaceDeclaration", <<>>, name, <<>>, properties, <<>>, <<>>)

\* enum Color { Red = 'red', Green = 'green', Blue = 'blue' }
Color == TEnum(NameColor, <<TLiteral(FALSE, "red"), TLiteral(FALSE, "green"),
                            TLiteral(FALSE, "blue")>>)
\* enum Level { Low = 1, High = 2 }
Level == TEnum(NameLevel, <<TLiteral(TRUE, "1"), TLiteral(TRUE, "2")>>)

DeclarationIds ==
  {"Leaf", "Self", "Ping", "Pong", "Holder", "ItemA", "ItemB"}

Declarations ==
  [id \in DeclarationIds |->
     CASE id = "Leaf" ->
            \* interface Leaf { id: number }
            Interface(NameLeaf, <<Field("id", TNumber)>>)
       [] id = "Self" ->
            \* interface Self { value: string; self: Self }
            Interface(NameSelf, <<Field("value", TString), Field("self", TDecl("Self"))>>)
       [] id = "Ping" ->
            \* interface Ping { pong: Pong }
            Interface(NamePing, <<Field("pong", TDecl("Pong"))>>)
       [] id = "Pong" ->
            \* interface Pong { ping?: Ping }
            Interface(NamePong,
              <<Field("ping", TNullable(TDecl("Ping"), FALSE, TRUE))>>)
       [] id = "Holder" ->
            \* class Holder { leaf: Leaf; color: Color | null;
            \*                readonly ro: Leaf; opt?: string; get size (): number }
            TObject(NameHolder, "ClassDeclaration", <<>>, NameHolder, <<>>,
              <<Field("leaf", TDecl("Leaf")),
                Field("color", TNullable(Color, TRUE, FALSE)),
                Property("ro", TDecl("Leaf"), {"Readonly"}, FALSE, FALSE, <<>>),
                Field("opt", TNullable(TString, FALSE, TRUE)),
                Property("size", TNumber, {}, TRUE, FALSE, <<>>)>>,
              <<>>, <<>>)
       [] id = "ItemA" ->
            \* a.ts: interface Item { a: string }
            Interface(NameItem, <<Field("a", TString)>>)
       [] id = "ItemB" ->
            \* b.ts: type Item = { b?: number }
            TObject(Name__type, "TypeLiteral", NameItem, NameItem, <<>>,
              <<Field("b", TNullable(TNumber, FALSE, TRUE))>>, <<>>, <<>>)]

\* an anonymous object type written as a type literal
TypeLiteral(properties) ==
  TObject(Name__type, "TypeLiteral", <<>>, <<"{","}">>, <<>>, properties, <<>>, <<>>)

\* Partial<Leaf>: a mapped type without type arguments of its own
PartialLeaf ==
  TObject(Name__type, "MappedType", <<>>, TextPartialLeaf, <<>>,
    <<Field("id", TNullable(TNumber, FALSE, TRUE))>>, <<>>, <<>>)
\* { [key: string]: Leaf }
StringIndexed ==
  TObject(Name__type, "TypeLiteral", <<>>, <<"{","}">>, <<>>, <<>>, <<TDecl("Leaf")>>, <<>>)
\* { [key: number]: string }
NumberIndexed ==
  TObject(Name__type, "TypeLiteral", <<>>, <<"{","}">>, <<>>, <<>>, <<>>, <<TString>>)
\* interface Box<T> { content: T } used as Box<Leaf>
BoxOfLeaf ==
  TObject(NameBox, "InterfaceDeclaration", <<>>, NameBox, <<TDecl("Leaf")>>,
    <<Field("content", TDecl("Leaf"))>>, <<>>, <<>>)
\* the type of an object literal expression ({ x: 'a' })
ObjectLiteral ==
  TObject(Name__object, "ObjectLiteralExpression", <<>>, <<"{","}">>, <<>>,
    <<Field("x", TString)>>, <<>>, <<>>)
DateType == TObject(NameDate, "InterfaceDeclaration", <<>>, NameDate, <<>>, <<>>, <<>>, <<>>)

Shapes ==
  { TString, TNumber, TVoid, TBoolean, TUnknown, DateType,
    TLiteral(FALSE, "x"), TLiteral(TRUE, "7"),
    TArray(TString), TArray(TDecl("Leaf")), TTuple(<<TString, TDecl("ItemB")>>),
    TPromise(TDecl("Leaf")), TPromise(TNullable(TString, FALSE, TRUE)),
    TNullable(TDecl("Leaf"), TRUE, FALSE), TNullable(Color, TRUE, TRUE),
    TIntersection(<<TDecl("Leaf"), TDecl("ItemA")>>),
    TUnion(<<TString, TNumber>>), Color, Level,
    PartialLeaf, StringIndexed, NumberIndexed, BoxOfLeaf, ObjectLiteral,
    \* { id: number, label: string | undefined, tags: string[] }
    TypeLiteral(<<Field("id", TNumber),
                  Field("label", TNullable(TString, FALSE, TRUE)),
                  Field("tags", TArray(TString))>>),
    \* { a?: string, b?: Leaf }
    TypeLiteral(<<Field("a", TNullable(TString, FALSE, TRUE)),
                  Field("b", TNullable(TDecl("Leaf"), FALSE, TRUE))>>),
    TypeLiteral(<<>>) }

\* one-property object types { p: T } over the ways a property can be
\* typed, modified and documented
ProbeTypes ==
  { TString, TNullable(TString, TRUE, FALSE), TNullable(TString, FALSE, TRUE),
    TNullable(TString, TRUE, TRUE), TDecl("Leaf"), TNullable(TDecl("Leaf"), TRUE, FALSE),
    TNullable(TDecl("Leaf"), TRUE, TRUE), TPromise(TNullable(TString, FALSE, TRUE)) }
ProbeModifiers == { {}, {"Readonly"}, {"Readonly", "Public"} }
ProbeTags ==
  { <<>>,
    <<Tag("minimum", <<"5">>)>>,
    <<Tag("minimum", <<"a","b","c">>)>>,
    <<Tag("maximum", <<"1","2","p","x">>), Tag("description", <<"d">>)>>,
    <<Tag("maximum", <<"-","3">>), Tag("maximum", <<"x">>)>>,
    <<Tag("readonly", <<>>), Tag("pattern", <<"$">>)>>,
    <<Tag("format", <<>>), Tag("deprecated", <<"y">>)>> }
Probes ==
  { TypeLiteral(<<Property("p", type, modifierFlags, FALSE, FALSE, jsDocTags)>>) :
      type \in ProbeTypes, modifierFlags \in ProbeModifiers, jsDocTags \in ProbeTags }

TopTypes == {TDecl(id) : id \in DeclarationIds} \cup Shapes

\* what the property extractor is exercised on
PropertyTypes ==
  Probes \cup
  { TDecl("Holder"), TypeLiteral(<<>>),
    TypeLiteral(<<Field("id", TNumber),
                  Field("label", TNullable(TString, FALSE, TRUE)),
                  Field("tags", TArray(TString))>>),
    TypeLiteral(<<Field("a", TNullable(TString, FALSE, TRUE)),
                  Field("b", TNullable(TDecl("Leaf"), FALSE, TRUE))>>) }

\* the type a handle stands for
Deref(type) == IF type.kind = "decl" THEN Declarations[type.id] ELSE type

\* Type.isNullable / isArray / ... : the shape queries of resolve, which are
\* not mutually exclusive (an array or a tuple is an object, boolean is a union)
isPromise(type) == type.kind = "promise"
isNullable(type) == type.kind = "nullable"
isArray(type) == type.kind = "array"
isBoolean(type) == type.kind = "boolean"
isUnknown(type) == type.kind = "unknown"
isTuple(type) == type.kind = "tuple"
isObject(type) == type.kind \in {"object", "array", "tuple", "promise"}
isIntersection(type) == type.kind = "intersection"
isUnion(type) == type.kind \in {"union", "boolean", "nullable"}
isEnum(type) == type.kind = "union" /\ type.isEnum
isLiteral(type) == type.kind = "literal"

----------------------------------------------------------------------------
(* Results of a call: the returned value, the registry as the call left   *)
(* it, "ok" or the error thrown, and whether the nullable override of     *)
(* resolveProperties cleared its `required` flag.                          *)

Return(value, spec) ==
  [value |-> value, schemas |-> spec, status |-> "ok", optional |-> FALSE]
Throw(error, spec) ==
  [value |-> <<>>, schemas |-> spec, status |-> error, optional |-> FALSE]

\* the empty JavaScript object {}
EmptyObject == [k \in {} |-> TRUE]

Reference(name) == "$ref" :> buildRef(name)

\* appendMetaToResolvedType without the special case for a Reference
appendMetaToResolvedType_merge(type, metas) == metas @@ type

\* resolve.ts appendMetaToResolvedType.  The code mutates `type` and returns
\* it; no fragment is shared between two holders, so the mutation is the
\* replacement of the value at its one holder.
appendMetaToResolvedType(type, metas) ==
  IF "$ref" \in DOMAIN type
  THEN LET ref == type["$ref"]
           deleted == [k \in (DOMAIN type) \ {"$ref"} |-> type[k]]
       IN metas @@ [allOf |-> <<"$ref" :> ref>>] @@ deleted
  ELSE metas @@ type

\* Not-a-number and the numbers parseFloat returns
NaN == [nan |-> TRUE, value |-> 0]
Number(n) == [nan |-> FALSE, value |-> n]

RECURSIVE skipWhiteSpace(_)
skipWhiteSpace(s) ==
  IF s # <<>> /\ Head(s) \in WhiteSpace THEN skipWhiteSpace(Tail(s)) ELSE s

RECURSIVE digitRun(_)
digitRun(s) ==
  IF s # <<>> /\ Head(s) \in Digits THEN <<Head(s)>> \o digitRun(Tail(s)) ELSE <<>>

DigitValue(c) ==
  CASE c = "0" -> 0 [] c = "1" -> 1 [] c = "2" -> 2 [] c = "3" -> 3 [] c = "4" -> 4
    [] c = "5" -> 5 [] c = "6" -> 6 [] c = "7" -> 7 [] c = "8" -> 8 [] c = "9" -> 9

RECURSIVE decimalValue(_, _)
decimalValue(digits, acc) ==
  IF digits = <<>> THEN acc
  ELSE decimalValue(Tail(digits), 10 * acc + DigitValue(Head(digits)))

\* parseFloat on texts without '.', exponent or 'Infinity': leading white
\* space and a sign are skipped, the longest run of digits is the value,
\* anything after it is ignored, and no digit at all gives NaN
parseFloat(text) ==
  LET trimmed == skipWhiteSpace(text)
      signed == trimmed # <<>> /\ Head(trimmed) \in {"-", "+"}
      digits == digitRun(IF signed THEN Tail(trimmed) ELSE trimmed)
  IN IF digits = <<>> THEN NaN
     ELSE IF signed /\ Head(trimmed) = "-"
          THEN Number(0 - decimalValue(digits, 0))
          ELSE Number(decimalValue(digits, 0))

FacetTags == {"format", "example", "description", "pattern", "minimum", "maximum"}
NumericTags == {"minimum", "maximum"}

\* the facet one documentation tag contributes
tagMeta(tag) ==
  tag.name :> (IF tag.name \in NumericTags THEN parseFloat(tag.text) ELSE Str(tag.text))

\* resolve.ts appendJsDocTags
RECURSIVE appendJsDocTags(_, _)
appendJsDocTags(jsDocTags, resolvedType) ==
  IF jsDocTags = <<>> THEN resolvedType
  ELSE LET tag == Head(jsDocTags)
       IN appendJsDocTags(Tail(jsDocTags),
            IF tag.name \in FacetTags /\ tag.text # <<>>
            THEN appendMetaToResolvedType(resolvedType, tagMeta(tag))
            ELSE resolvedType)

\* resolve.ts retrieveTypeName
retrieveTypeName(type) ==
  IF /\ type.symbolName = Name__type
     /\ type.declarationKind = "TypeLiteral"
     /\ type.aliasName # <<>>
  THEN type.aliasName
  ELSE type.symbolName

\* the registry test answering that no name is registered yet
isUnresolved_always(spec, name) == TRUE

\* the registry test answering that every name is registered already
isUnresolved_never(spec, name) == FALSE

\* resolve.ts:123 and :143, typeof spec.components.schemas[name] === 'undefined'
isUnresolved(spec, name) == name \notin DOMAIN spec

\* the inline test without the check of the type arguments
isInlined_anonymous(typeName, typeArguments) ==
  typeName = Name__type \/ typeName = Name__object

\* resolve.ts:113, the types that are never registered
isInlined(typeName, typeArguments) ==
  \/ typeName = Name__type
  \/ typeName = Name__object
  \/ Len(typeArguments) > 0

\* the enum entry with the first member's value only
enumSchema_first(resolvedTypes) ==
  [type |-> resolvedTypes[1].type, enum |-> <<resolvedTypes[1].enum[1]>>]

\* resolve.ts:144-149, the registry entry of an enum
enumSchema(resolvedTypes) ==
  [type |-> resolvedTypes[1].type,
   enum |-> [i \in 1..Len(resolvedTypes) |-> resolvedTypes[i].enum[1]]]

\* the result left with its empty required list
deleteEmptyRequired_keep(schema) == schema

\* resolve.ts:215-218
deleteEmptyRequired(schema) ==
  IF schema.required = <<>> THEN [properties |-> schema.properties] ELSE schema

\* resolve.ts:186-191
isReadonly(property) ==
  \/ property.modifierFlags = {"Readonly"}
  \/ (property.getAccessor /\ ~property.setAccessor)
  \/ \E i \in 1..Len(property.jsDocTags) : property.jsDocTags[i].name = "readonly"

RECURSIVE resolve(_, _, _, _)
RECURSIVE resolveEach(_, _, _)
RECURSIVE resolveProperties(_, _, _)
RECURSIVE reduceProperties(_, _, _, _)

\* types.map(type => resolve(type, spec))
resolveEach(types, spec, depth) ==
  IF types = <<>> THEN Return(<<>>, spec)
  ELSE LET first == resolve(Head(types), spec, "resolveNullableType", depth)
       IN IF first.status # "ok" THEN first
          ELSE LET rest == resolveEach(Tail(types), first.schemas, depth)
               IN IF rest.status # "ok" THEN rest
                  ELSE Return(<<first.value>> \o rest.value, rest.schemas)

\* resolve.ts resolve; handle is the type, spec the registry,
\* resolveNullableTypeFn names the nullable handler ("resolveNullableType" or
\* the "override" closure of resolveProperties), depth counts the frames
\* below this call
resolve(handle, spec, resolveNullableTypeFn, depth) ==
  LET type == Deref(handle) IN
  IF depth >= MaxStack THEN Throw("RangeError", spec)
  ELSE IF isPromise(type)
  THEN resolve(type.typeArguments[1], spec, "resolveNullableType", depth + 1)
  ELSE IF isNullable(type)
  THEN LET isUndefined == type.hasUndefined
           inner == resolve(type.nonNullable, spec, "resolveNullableType", depth + 1)
       IN IF inner.status # "ok" THEN inner
          ELSE IF resolveNullableTypeFn = "override" /\ isUndefined
               THEN [inner EXCEPT !.optional = TRUE]
               ELSE Return(appendMetaToResolvedType(inner.value, [nullable |-> TRUE]),
                           inner.schemas)
  ELSE IF isArray(type)
  THEN LET items == resolve(type.element, spec, "resolveNullableType", depth + 1)
       IN IF items.status # "ok" THEN items
          ELSE Return([type |-> "array", items |-> items.value], items.schemas)
  ELSE IF isBoolean(type) THEN Return([type |-> "boolean"], spec)
  ELSE IF isUnknown(type) THEN Return([type |-> "object"], spec)
  ELSE IF isTuple(type)
  THEN LET elements == resolveEach(type.elements, spec, depth + 1)
       IN IF elements.status # "ok" THEN elements
          ELSE Return([type |-> "array", items |-> [oneOf |-> elements.value]],
                      elements.schemas)
  ELSE IF isObject(type)
  THEN LET retrieved == retrieveTypeName(type) IN
       IF retrieved = NameDate
       THEN Return([type |-> "string", format |-> "date-time"], spec)
       ELSE LET isMappedType == type.declarationKind = "MappedType"
                typeName == IF retrieved = Name__type /\ isMappedType
                            THEN type.text ELSE retrieved
            IN IF isInlined(typeName, type.typeArguments)
               THEN LET props == resolveProperties(type, spec, depth + 1)
                    IN IF props.status # "ok" THEN props
                       ELSE Return(props.value @@ [type |-> "object"], props.schemas)
               ELSE LET refName == Str(stringifyName(typeName))
                    IN IF isUnresolved(spec, refName)
                       THEN LET props == resolveProperties(type, spec, depth + 1)
                            IN IF props.status # "ok" THEN props
                               ELSE Return(Reference(refName),
                                      (refName :> (props.value @@ [type |-> "object"]))
                                        @@ props.schemas)
                       ELSE Return(Reference(refName), spec)
  ELSE IF isIntersection(type)
  THEN LET members == resolveEach(type.members, spec, depth + 1)
       IN IF members.status # "ok" THEN members
          ELSE Return([allOf |-> members.value], members.schemas)
  ELSE IF isUnion(type)
  THEN LET values == resolveEach(type.members, spec, depth + 1)
       IN IF values.status # "ok" THEN values
          ELSE IF isEnum(type)
          THEN LET enumName == Str(stringifyName(type.symbolName))
               IN IF isUnresolved(values.schemas, enumName)
                  THEN LET resolvedTypes == resolveEach(type.members, values.schemas, depth + 1)
                       IN IF resolvedTypes.status # "ok" THEN resolvedTypes
                          ELSE IF \E i \in 1..Len(resolvedTypes.value) :
                                    "enum" \notin DOMAIN resolvedTypes.value[i]
                               THEN Throw("TypeError", resolvedTypes.schemas)
                               ELSE Return(Reference(enumName),
                                      (enumName :> enumSchema(resolvedTypes.value))
                                        @@ resolvedTypes.schemas)
                  ELSE Return(Reference(enumName), values.schemas)
          ELSE Return([oneOf |-> values.value], values.schemas)
  ELSE IF isLiteral(type)
  THEN Return([type |-> IF type.isNumberLiteral THEN "number" ELSE "string",
               enum |-> <<type.value>>], spec)
  ELSE LET typeName == type.text
       IN IF typeName = <<"v","o","i","d">>
          THEN Return([type |-> "object"], spec)
          ELSE Return([type |-> Str(typeName)], spec)

\* the reduce callback of resolveProperties, applied to the properties left
reduceProperties(properties, schema, spec, depth) ==
  IF properties = <<>> THEN Return(schema, spec)
  ELSE LET property == Head(properties)
           resolved == resolve(property.type, spec, "override", depth)
       IN IF resolved.status # "ok" THEN resolved
          ELSE LET required == ~resolved.optional
                   marked == IF isReadonly(property)
                             THEN appendMetaToResolvedType(resolved.value, [readOnly |-> TRUE])
                             ELSE resolved.value
                   resolvedType == appendJsDocTags(property.jsDocTags, marked)
               IN reduceProperties(Tail(properties),
                    [properties |-> (property.name :> resolvedType) @@ schema.properties,
                     required |-> IF required
                                  THEN Append(schema.required, property.name)
                                  ELSE schema.required],
                    resolved.schemas, depth)

\* resolve.ts resolveProperties
resolveProperties(type, spec, depth) ==
  IF depth >= MaxStack THEN Throw("RangeError", spec)
  ELSE LET reduced == reduceProperties(type.properties,
                        [properties |-> EmptyObject, required |-> <<>>], spec, depth + 1)
       IN IF reduced.status # "ok" THEN reduced
          ELSE LET result0 == deleteEmptyRequired(reduced.value)
               IN IF /\ DOMAIN result0.properties = {}
                     /\ (type.stringIndexType # <<>> \/ type.numberIndexType # <<>>)
                  THEN LET indexType == IF type.stringIndexType # <<>>
                                        THEN type.stringIndexType[1]
                                        ELSE type.numberIndexType[1]
                           additional == resolve(indexType, reduced.schemas,
                                                 "resolveNullableType", depth + 1)
                       IN IF additional.status # "ok" THEN additional
                          ELSE Return([additionalProperties |-> additional.value] @@ result0,
                                      additional.schemas)
                  ELSE Return(result0, reduced.schemas)

----------------------------------------------------------------------------
(* The resolver as a state machine: top-level resolve calls that share one *)
(* registry.                                                               *)

\* resolve(type, spec) called by the route generator
Resolve(type) ==
  LET returned == resolve(type, schemas, "resolveNullableType", 0)
  IN /\ schemas' = returned.schemas
     /\ call' = type
     /\ result' = returned.value
     /\ status' = returned.status
     /\ UNCHANGED <<rawName, once, twice, step>>

Init ==
  /\ schemas = EmptyObject
  /\ call = TVoid
  /\ result = EmptyObject
  /\ status = "init"
  /\ rawName = <<>> /\ once = <<>> /\ twice = <<>> /\ step = 0

Next == \E type \in TopTypes : Resolve(type)

Spec == Init /\ [][Next]_vars

----------------------------------------------------------------------------
(* The name normalizer on its own: stringifyName applied once and again.  *)

NameTokens ==
  { <<"P","r","o","m","i","s","e","<">>, <<"i","m","p","o","r","t","(">>, <<")",".">>,
    <<"A">>, <<"b">>, <<"<">>, <<">">>, <<"[">>, <<"]">>, <<":">>, <<",", " ">>,
    <<"'">>, <<"|">>, <<"$">>, <<"%">>, <<"#">>, <<"/">> }

RECURSIVE NamesOf(_)
NamesOf(n) ==
  IF n = 0 THEN {<<>>}
  ELSE LET shorter == NamesOf(n - 1)
       IN shorter \cup {name \o token : name \in shorter, token \in NameTokens}

RawNames == NamesOf(MaxTokens)

Normalize ==
  /\ step = 0
  /\ once' = stringifyName(rawName)
  /\ step' = 1
  /\ UNCHANGED <<schemas, call, result, status, rawName, twice>>

NormalizeAgain ==
  /\ step = 1
  /\ twice' = stringifyName(once)
  /\ step' = 2
  /\ UNCHANGED <<schemas, call, result, status, rawName, once>>

InitName ==
  /\ schemas = EmptyObject
  /\ call = TVoid
  /\ result = EmptyObject
  /\ status = "init"
  /\ rawName \in RawNames
  /\ once = <<>> /\ twice = <<>> /\ step = 0

NextName == Normalize \/ NormalizeAgain

SpecName == InitName /\ [][NextName]_vars

----------------------------------------------------------------------------
(* The property extractor on its own: resolve called on object types that *)
(* differ in how their property is typed, modified and documented.        *)

NextProperties == \E type \in PropertyTypes : Resolve(type)

SpecProperties == Init /\ [][NextProperties]_vars

----------------------------------------------------------------------------
(* Reading the output                                                      *)

RECURSIVE fragmentsOf(_)
RECURSIVE fragmentsOfEach(_)
RECURSIVE fragmentsOfMap(_, _)

\* a fragment and every fragment nested in it, as a sequence
fragmentsOf(f) ==
  <<f>>
  \o (IF "items" \in DOMAIN f THEN fragmentsOf(f.items) ELSE <<>>)
  \o (IF "additionalProperties" \in DOMAIN f THEN fragmentsOf(f.additionalProperties) ELSE <<>>)
  \o (IF "allOf" \in DOMAIN f THEN fragmentsOfEach(f.allOf) ELSE <<>>)
  \o (IF "oneOf" \in DOMAIN f THEN fragmentsOfEach(f.oneOf) ELSE <<>>)
  \o (IF "properties" \in DOMAIN f
      THEN fragmentsOfMap(f.properties, DOMAIN f.properties) ELSE <<>>)

fragmentsOfEach(fs) ==
  IF fs = <<>> THEN <<>> ELSE fragmentsOf(Head(fs)) \o fragmentsOfEach(Tail(fs))

fragmentsOfMap(map, keys) ==
  IF keys = {} THEN <<>>
  ELSE LET k == CHOOSE k \in keys : TRUE
       IN fragmentsOf(map[k]) \o fragmentsOfMap(map, keys \ {k})

\* every fragment of the registry
StoredFragments == fragmentsOfMap(schemas, DOMAIN schemas)
\* every fragment the last call returned
ReturnedFragments == IF status = "ok" THEN fragmentsOf(result) ELSE <<>>
OutputFragments == ReturnedFragments \o StoredFragments

Returned == status = "ok"
CalledDeclaration(id) == call.kind = "decl" /\ call.id = id
CalledObject == Deref(call).kind = "object"
CalledEnum == call.kind = "union" /\ call.isEnum

\* a call on { p: T }: its one property and the fragment produced for it
CalledProbe ==
  /\ call.kind = "object" /\ call.symbolName = Name__type
  /\ call.declarationKind = "TypeLiteral"
  /\ Len(call.properties) = 1 /\ call.properties[1].name = "p"
ProbeProperty == call.properties[1]
ProbeFragment == result.properties.p
RequiredOf(f) == IF "required" \in DOMAIN f THEN f.required ELSE <<>>
Listed(name, list) == \E i \in 1..Len(list) : list[i] = name

IsStringType(type) == type.kind = "primitive" /\ type.text = <<"s","t","r","i","n","g">>

----------------------------------------------------------------------------
(* C1 *)

\* C1: resolving a named object type whose property graph has a cycle
\* through named types returns; the self-typed property's fragment is the
\* Reference to the type itself and the registry holds the entry of that name.
C1_CyclicTypeResolves ==
  /\ CalledDeclaration("Self") =>
       /\ Returned
       /\ result = Reference("Self")
       /\ "Self" \in DOMAIN schemas
       /\ schemas["Self"].properties.self = Reference("Self")
  /\ (CalledDeclaration("Ping") \/ CalledDeclaration("Pong")) => Returned

----------------------------------------------------------------------------
(* C2 *)

\* the name a type is registered under, for the types resolve registers
RefNameOf(handle) ==
  LET type == Deref(handle)
  IN IF isEnum(type) THEN Str(stringifyName(type.symbolName))
     ELSE LET retrieved == retrieveTypeName(type)
          IN Str(stringifyName(IF retrieved = Name__type /\ type.declarationKind = "MappedType"
                               THEN type.text ELSE retrieved))
IsRegistrable(handle) ==
  LET type == Deref(handle)
  IN \/ isEnum(type)
     \/ /\ type.kind = "object"
        /\ retrieveTypeName(type) # NameDate
        /\ Len(type.typeArguments) = 0
        /\ type.symbolName # Name__object
        /\ (type.symbolName = Name__type =>
              \/ type.declarationKind = "MappedType"
              \/ (type.declarationKind = "TypeLiteral" /\ type.aliasName # <<>>))

\* C2: a resolve call on a named type whose normalized name is already
\* registered inserts nothing, changes nothing and returns the Reference to
\* that name; and no call ever overwrites or removes an entry.
C2_RegisteredNameIsReused ==
  [][ /\ (IsRegistrable(call') /\ RefNameOf(call') \in DOMAIN schemas) =>
            /\ schemas' = schemas
            /\ status' = "ok"
            /\ result' = Reference(RefNameOf(call'))
      /\ \A name \in DOMAIN schemas :
            name \in DOMAIN schemas' /\ schemas'[name] = schemas[name] ]_vars

\* the second declaration named Item was resolved after the first: the call
\* returned the Reference and the registry still holds the first one's entry
C2_Witness ==
  /\ CalledDeclaration("ItemB") /\ Returned
  /\ result = Reference("Item")
  /\ "Item" \in DOMAIN schemas
  /\ DOMAIN schemas["Item"].properties = {"a"}

----------------------------------------------------------------------------
(* C3 *)

\* C3: for a property typed string with null and/or undefined, the property
\* is left out of required exactly when undefined is allowed, and its
\* fragment is {type: string} with nullable: true exactly when null is allowed.
C3_OptionalAndNullableIndependent ==
  (/\ CalledProbe /\ Returned
   /\ ProbeProperty.type.kind = "nullable"
   /\ IsStringType(ProbeProperty.type.nonNullable)) =>
     /\ ProbeFragment.type = "string"
     /\ Listed("p", RequiredOf(result)) <=> ~ProbeProperty.type.hasUndefined
     /\ ("nullable" \in DOMAIN ProbeFragment) <=> ProbeProperty.type.hasNull
     /\ ("nullable" \in DOMAIN ProbeFragment) => ProbeFragment.nullable = TRUE

----------------------------------------------------------------------------
(* C4 *)

\* the entry the claim expects for an enum: every member's value in member
\* order, typed as the first member
EnumEntry(enum) ==
  [type |-> IF enum.members[1].isNumberLiteral THEN "number" ELSE "string",
   enum |-> [i \in 1..Len(enum.members) |-> enum.members[i].value]]
Enums == {Color, Level}

\* C4: resolving an enum registers, under its normalized name, one entry
\* with every member's value in member order and the first member's type,
\* and returns the Reference to it; a later resolution, from any call site,
\* returns the same Reference and leaves the entry as it is.
C4_EnumCollapses ==
  [][ /\ \A enum \in Enums :
           RefNameOf(enum) \in DOMAIN schemas' =>
             schemas'[RefNameOf(enum)] = EnumEntry(enum)
      /\ CalledEnum' =>
           /\ status' = "ok"
           /\ result' = Reference(RefNameOf(call'))
           /\ RefNameOf(call') \in DOMAIN schemas'
           /\ DOMAIN schemas' = DOMAIN schemas \cup {RefNameOf(call')}
           /\ \A name \in DOMAIN schemas : schemas'[name] = schemas[name] ]_vars

\* Color resolved on its own after Holder registered it from a property
C4_Witness ==
  /\ CalledEnum /\ Returned /\ call.symbolName = NameColor
  /\ result = Reference("Color")
  /\ "Holder" \in DOMAIN schemas
  /\ schemas["Color"].enum = <<"red", "green", "blue">>
  /\ "Level" \in DOMAIN schemas /\ schemas["Level"].type = "number"

----------------------------------------------------------------------------
(* C5 *)

IsLeafTyped(type) ==
  \/ (type.kind = "decl" /\ type.id = "Leaf")
  \/ (type.kind = "nullable" /\ type.nonNullable.kind = "decl" /\ type.nonNullable.id = "Leaf")
FacetKeys == FacetTags \cup {"nullable", "readOnly"}
\* the facets the property's modifiers and documentation tags ask for
TagsWritten(property, f) ==
  /\ isReadonly(property) => ("readOnly" \in DOMAIN f /\ f.readOnly = TRUE)
  /\ \A i \in 1..Len(property.jsDocTags) :
       LET tag == property.jsDocTags[i]
       IN (tag.name \in FacetTags /\ tag.text # <<>>) => tag.name \in DOMAIN f

\* C5: in every returned fragment and registry entry an object with a $ref
\* key has no other key; a Reference that was annotated is
\* {allOf: [the reference], ...facets}, any other annotated fragment carries
\* the facets itself.
C5_ReferenceHasNoSiblings ==
  /\ \A i \in 1..Len(OutputFragments) :
       "$ref" \in DOMAIN OutputFragments[i] => DOMAIN OutputFragments[i] = {"$ref"}
  /\ (CalledProbe /\ Returned) =>
       /\ TagsWritten(ProbeProperty, ProbeFragment)
       /\ IsLeafTyped(ProbeProperty.type) =>
            IF DOMAIN ProbeFragment \cap FacetKeys = {}
            THEN ProbeFragment = Reference("Leaf")
            ELSE /\ DOMAIN ProbeFragment \subseteq {"allOf"} \cup FacetKeys
                 /\ "allOf" \in DOMAIN ProbeFragment
                 /\ ProbeFragment.allOf = <<Reference("Leaf")>>
       /\ IsStringType(ProbeProperty.type) =>
            /\ DOMAIN ProbeFragment \subseteq {"type"} \cup FacetKeys
            /\ ProbeFragment.type = "string"

\* a read-only, nullable property of a named type with a numeric tag: the
\* Reference was annotated three times
C5_Witness ==
  /\ CalledProbe /\ Returned
  /\ IsLeafTyped(ProbeProperty.type)
  /\ DOMAIN ProbeFragment = {"allOf", "nullable", "readOnly", "minimum"}
  /\ ProbeFragment.allOf = <<Reference("Leaf")>>

----------------------------------------------------------------------------
(* C6 *)

\* C6: normalizing a normalized name changes nothing.
C6_NormalizeIdempotent == step = 2 => twice = once

----------------------------------------------------------------------------
(* C7 *)

\* an object type without a name of its own: a type literal without an
\* alias, a mapped type, an object literal
IsAnonymous(type) ==
  \/ type.symbolName = Name__object
  \/ /\ type.symbolName = Name__type
     /\ ~(type.declarationKind = "TypeLiteral" /\ type.aliasName # <<>>)
IsMapped(type) == type.symbolName = Name__type /\ type.declarationKind = "MappedType"
IsGeneric(type) == Len(type.typeArguments) > 0
IsInlineObject(f) == "$ref" \notin DOMAIN f /\ "type" \in DOMAIN f /\ f.type = "object"
\* the type whose fragment a call returns unchanged
RECURSIVE Unwrapped(_)
Unwrapped(handle) ==
  LET type == Deref(handle)
  IN IF type.kind = "promise" THEN Unwrapped(type.typeArguments[1]) ELSE type

\* C7: a Reference is returned only for a class, an interface or an enum;
\* every anonymous object type, mapped types included, and every object type
\* with type arguments is returned inline and registers nothing under its name.
C7_OnlyDeclaredNamesAreReferenced ==
  Returned =>
    /\ "$ref" \in DOMAIN result =>
         \/ isEnum(Unwrapped(call))
         \/ /\ Unwrapped(call).kind = "object"
            /\ ~IsAnonymous(Unwrapped(call)) /\ ~IsGeneric(Unwrapped(call))
    /\ (CalledObject /\ (IsAnonymous(Deref(call)) \/ IsGeneric(Deref(call)))) =>
         /\ IsInlineObject(result)
         /\ RefNameOf(call) \notin DOMAIN schemas

\* C7 amended: a mapped type without type arguments is named by its
\* rendered text, registered and referenced; the other anonymous object
\* types and the object types with type arguments are inlined.
C7_OnlyNamedTypesAreReferenced ==
  Returned =>
    /\ "$ref" \in DOMAIN result =>
         \/ isEnum(Unwrapped(call))
         \/ /\ Unwrapped(call).kind = "object"
            /\ ~IsGeneric(Unwrapped(call))
            /\ (~IsAnonymous(Unwrapped(call)) \/ IsMapped(Unwrapped(call)))
    /\ (/\ CalledObject
        /\ \/ IsGeneric(Deref(call))
           \/ (IsAnonymous(Deref(call)) /\ ~IsMapped(Deref(call)))) =>
         /\ IsInlineObject(result)
         /\ Str(stringifyName(Deref(call).symbolName)) \notin DOMAIN schemas
    /\ (CalledObject /\ IsMapped(Deref(call)) /\ ~IsGeneric(Deref(call))) =>
         /\ result = Reference(RefNameOf(call))
         /\ RefNameOf(call) \in DOMAIN schemas

\* Box<Leaf> came back inline while Partial<Leaf> sits in the registry
C7_Witness ==
  /\ Returned /\ CalledObject /\ IsGeneric(Deref(call))
  /\ IsInlineObject(result)
  /\ "Partial_Leaf_" \in DOMAIN schemas
  /\ "Box" \notin DOMAIN schemas

----------------------------------------------------------------------------
(* C8 *)

\* a text that is a number: an optional sign and digits, nothing else
IsNumberText(text) ==
  LET unsigned == IF text # <<>> /\ Head(text) \in {"-", "+"} THEN Tail(text) ELSE text
  IN unsigned # <<>> /\ \A i \in 1..Len(unsigned) : unsigned[i] \in Digits
HasMalformedNumericTag(property) ==
  \E i \in 1..Len(property.jsDocTags) :
    /\ property.jsDocTags[i].name \in NumericTags
    /\ property.jsDocTags[i].text # <<>>
    /\ ~IsNumberText(property.jsDocTags[i].text)

\* C8: a minimum or maximum tag whose text is not a number makes the
\* top-level resolve call fail, and no fragment carries a not-a-number bound.
C8_MalformedNumericTagAborts ==
  /\ (CalledProbe /\ HasMalformedNumericTag(ProbeProperty)) => ~Returned
  /\ \A i \in 1..Len(OutputFragments) :
       \A key \in NumericTags \cap DOMAIN OutputFragments[i] :
         ~OutputFragments[i][key].nan

----------------------------------------------------------------------------
(* C9 *)

IsOptional(property) == property.type.kind = "nullable" /\ property.type.hasUndefined
RECURSIVE requiredNames(_)
\* the names of the properties that are not optional, in declaration order
requiredNames(properties) ==
  IF properties = <<>> THEN <<>>
  ELSE (IF IsOptional(Head(properties)) THEN <<>> ELSE <<Head(properties).name>>)
       \o requiredNames(Tail(properties))

\* C9: an object fragment has no empty required list: required, when
\* present, is non-empty and lists keys of properties; an inline object
\* lists exactly its non-optional properties in declaration order and has
\* no required field when there is none.
C9_RequiredNeverEmpty ==
  /\ \A i \in 1..Len(OutputFragments) :
       LET f == OutputFragments[i]
       IN "required" \in DOMAIN f =>
            /\ "properties" \in DOMAIN f
            /\ f.required # <<>>
            /\ \A j \in 1..Len(f.required) : f.required[j] \in DOMAIN f.properties
  /\ (Returned /\ call.kind = "object") =>
       /\ RequiredOf(result) = requiredNames(call.properties)
       /\ requiredNames(call.properties) = <<>> => "required" \notin DOMAIN result
  /\ "Holder" \in DOMAIN schemas =>
       schemas["Holder"].required = requiredNames(Declarations["Holder"].properties)

\* { a?: string, b?: Leaf }: two properties, none required
C9_Witness ==
  /\ Returned /\ call.kind = "object"
  /\ DOMAIN result = {"type", "properties"}
  /\ DOMAIN result.properties = {"a", "b"}
  /\ "Holder" \in DOMAIN schemas

----------------------------------------------------------------------------
(* C10 *)

\* C10: every $ref of a returned fragment or of a registry entry, allOf
\* wrappers included, is '#/components/schemas/' followed by a key of the
\* registry.
C10_NoDanglingReference ==
  \A i \in 1..Len(OutputFragments) :
    "$ref" \in DOMAIN OutputFragments[i] =>
      \E name \in DOMAIN schemas :
        OutputFragments[i]["$ref"] = "#/components/schemas/" \o name

\* Holder's entry holds a plain reference, an allOf-wrapped one and a
\* reference to an enum, and the call returned a reference too
C10_Witness ==
  /\ Returned /\ CalledDeclaration("Holder")
  /\ result = Reference("Holder")
  /\ schemas["Holder"].properties.leaf = Reference("Leaf")
  /\ schemas["Holder"].properties.ro.allOf = <<Reference("Leaf")>>
  /\ schemas["Holder"].properties.color.allOf = <<Reference("Color")>>

====
